---------------------------- MODULE Spec2Model ----------------------------
(***************************************************************************)
(* Room / session state manager and identity-addressed signaling relay.    *)
(*                                                                         *)
(* The repository holds two builds of the server:                          *)
(*   src/unnamed/part_000  "VOICE + REALTIME STATS": default room "hall",  *)
(*                         acknowledged joins, capped chat log.            *)
(*                         Its handlers carry the suffix V.                *)
(*   src/server.js         "Signaling + Rooms": rooms made by create-room, *)
(*                         uncapped chat log.  Suffix S.                   *)
(* The variable build says which of the two is running; it never changes.  *)
(* Each socket.io handler is one action.  Handlers run to completion on    *)
(* the node event loop, so an action is atomic.                            *)
(*                                                                         *)
(* Left out, because no handler modelled here reads it: the stats:* events *)
(* and statsUsers, the upload endpoints, the display fields of a room      *)
(* (name, cover, ownerId, ownerName, ownerOnline, createdAt), the name of  *)
(* a slot occupant, get-rooms, keep-alive and signal-to-socket.            *)
(***************************************************************************)
EXTENDS Integers, Sequences, FiniteSets, TLC

VARIABLES
    build,             \* "part_000" or "server.js"
    sockets,           \* socket id -> "idle" (not yet connected), "open", "closed"
    rooms,             \* let rooms = []: the array of room objects
    userIdToSocket,    \* Map userId -> socket id (None: no entry)
    socketIdToUserId,  \* Map socket id -> userId (None: no entry)
    socketData,        \* socket.data.userId of each socket (None: unset)
    emitted,           \* what the last handler emitted, in order
    last,              \* the event the last handler processed
    before,            \* history: the rooms array as that handler found it
    clock,             \* Date.now(), ticking at every send-chat
    sent,              \* history: room id -> every chat message sent to it
    run,               \* history: the (room, user) of the current run of
                       \* join-room / leave-room events, and the members
                       \* list of the room before the run
    joinedAs           \* history: userId -> the socket of the latest
                       \* join-room under that id that found its room

vars == <<build, sockets, rooms, userIdToSocket, socketIdToUserId, socketData,
          emitted, last, before, clock, sent, run, joinedAs>>

---------------------------------------------------------------------------
(* The universe of inputs. *)

None == "none"          \* undefined / no Map entry / empty slot
NoId == "undefined"     \* a user object whose id is missing

Users == {"u1", "u2"}
SocketIds == {"s1", "s2"}
RoomIds == {"hall", "r1"}
\* The ids create-room is asked to create (None: a payload without id);
\* "r1" stays the id of a room that does not exist.
CreateIds == {"hall", None}
Slots == {"0", "1"}
Builds == {"part_000", "server.js"}
\* What a create-room payload may carry as memberCount and as members.
SeedCounts == {0, 1}
SeedMembers == {<<>>, <<"u1">>}


\* A chat log holds at most this many entries (part_000).
ChatCap == 500
\* broadcastRoomUpdate sends this many chat entries at most.
SnapshotTail == 100

---------------------------------------------------------------------------
(* Arrays. *)

\* Array.prototype.includes
Includes(arr, x) == \E i \in DOMAIN arr : arr[i] = x

\* arr.filter(id => id !== x)
FilterOut(arr, x) == SelectSeq(arr, LAMBDA id : id # x)

\* how often x occurs in arr
Count(arr, x) == Cardinality({i \in DOMAIN arr : arr[i] = x})

\* arr.slice(-n)
SliceLast(arr, n) ==
    IF Len(arr) <= n THEN arr ELSE SubSeq(arr, Len(arr) - n + 1, Len(arr))

\* if (!arr.includes(x)) arr.push(x)
PushIfMissing(arr, x) == IF Includes(arr, x) THEN arr ELSE Append(arr, x)

---------------------------------------------------------------------------
(* Rooms. *)

\* The room object, as far as the handlers read it.
NewRoom(id, memberCount, members) ==
    [id |-> id, memberCount |-> memberCount, members |-> members,
     micSlots |-> [k \in Slots |-> None], chat |-> <<>>]

\* The default room of part_000.
Hall == NewRoom("hall", 0, <<>>)

\* rs.find(r => r.id === id) finds a room.
ExistsIn(rs, id) == \E i \in DOMAIN rs : rs[i].id = id

\* rs.find(r => r.id === id): the index of the first match.
IndexIn(rs, id) ==
    CHOOSE i \in DOMAIN rs :
        rs[i].id = id /\ \A j \in 1..(i - 1) : rs[j].id # id

\* function findRoom(id) { return rooms.find(r => r.id === id); }
RoomExists(id) == ExistsIn(rooms, id)
RoomIndex(id) == IndexIn(rooms, id)
findRoom(id) == rooms[RoomIndex(id)]

\* The slots of a room that hold userId.
SlotsOf(room, userId) == {k \in Slots : room.micSlots[k] = userId}

\* Object.keys(micSlots).forEach(k => { if (micSlots[k]?.id === userId)
\*                                         delete micSlots[k] })
ReleaseSlots(micSlots, userId) ==
    [k \in Slots |-> IF micSlots[k] = userId THEN None ELSE micSlots[k]]

\* SlotTaken, looking at the first slot whatever slotIndex is.
SlotTakenWrongKey(room, slotIndex) == room.micSlots["0"] # None

\* if (room.micSlots[slotIndex]): the slot holds an occupant.
SlotTaken(room, slotIndex) == room.micSlots[slotIndex] # None

---------------------------------------------------------------------------
(* Emissions: [ev, to, data].  to is a socket id (socket.emit, io.to(id)),  *)
(* a room id (io.to(roomId), socket.to(roomId)) or "*" (io.emit).          *)

Emit(ev, to, data) == [ev |-> ev, to |-> to, data |-> data]

\* broadcastRoomUpdate(room): to the room, then to everyone.
broadcastRoomUpdate(room) ==
    <<Emit("room-updated", room.id, room.id), Emit("room-updated", "*", room.id)>>

\* The snapshot broadcastRoomUpdate sends.
cleanRoom(room) ==
    [room EXCEPT !.chat = SliceLast(room.chat, SnapshotTail)]

\* The event a handler processed.  socket is the socket it arrived on, for
\* the handlers that read socket.id or socket.data or reply to the sender
\* (connection, create-room, join-room, claim-mic, disconnect), and None for
\* the others, which treat every socket alike.
Event(op, socket, roomId, userId, slotIndex) ==
    [op |-> op, socket |-> socket, roomId |-> roomId, userId |-> userId,
     slotIndex |-> slotIndex]

---------------------------------------------------------------------------
(* The state after construction. *)

Init ==
    /\ build \in Builds
    /\ sockets = [s \in SocketIds |-> "idle"]
    /\ rooms = IF build = "part_000" THEN <<Hall>> ELSE <<>>
    /\ userIdToSocket = [u \in Users |-> None]
    /\ socketIdToUserId = [s \in SocketIds |-> None]
    /\ socketData = [s \in SocketIds |-> None]
    /\ emitted = <<>>
    /\ last = Event("start", None, None, None, None)
    /\ before = rooms
    /\ clock = 0
    /\ sent = [r \in RoomIds |-> <<>>]
    /\ run = [roomId |-> None, userId |-> None, members |-> <<>>]
    /\ joinedAs = [u \in Users |-> None]

\* io.on('connection'): the transport opens a socket with a fresh id.
Connect(s) ==
    /\ sockets[s] = "idle"
    /\ sockets' = [sockets EXCEPT ![s] = "open"]
    /\ emitted' = <<>>
    /\ last' = Event("connection", s, None, None, None)
    /\ before' = rooms
    /\ UNCHANGED <<build, rooms, userIdToSocket, socketIdToUserId, socketData,
                   clock>>

---------------------------------------------------------------------------
(* src/unnamed/part_000 *)

\* userIdToSocket.set(user.id, socket.id); socketIdToUserId.set(socket.id,
\* user.id); socket.data.userId = user.id -- when user.id is truthy.
Bind(s, userId) ==
    IF userId # NoId
    THEN /\ userIdToSocket' = [userIdToSocket EXCEPT ![userId] = s]
         /\ socketIdToUserId' = [socketIdToUserId EXCEPT ![s] = userId]
         /\ socketData' = [socketData EXCEPT ![s] = userId]
    ELSE UNCHANGED <<userIdToSocket, socketIdToUserId, socketData>>

\* AddMember without the includes test: a re-join is pushed again.
AddMemberAlways(room, userId) ==
    LET members == Append(room.members, userId)
    IN  [room EXCEPT !.members = members, !.memberCount = Len(members)]

\* if (!room.members.includes(user.id)) room.members.push(user.id);
\* room.memberCount = room.members.length
AddMember(room, userId) ==
    LET members == PushIfMissing(room.members, userId)
    IN  [room EXCEPT !.members = members, !.memberCount = Len(members)]

\* RemoveMember without the release of the slots.
RemoveMemberKeepsSlots(room, userId) ==
    LET members == FilterOut(room.members, userId)
    IN  [room EXCEPT !.members = members, !.memberCount = Len(members)]

\* room.members = room.members.filter(id => id !== userId); release the
\* slots of userId; room.memberCount = room.members.length
RemoveMember(room, userId) ==
    LET members == FilterOut(room.members, userId)
    IN  [room EXCEPT !.members = members,
                     !.micSlots = ReleaseSlots(room.micSlots, userId),
                     !.memberCount = Len(members)]

\* JoinRoomV with the binding made before the room is looked up.
JoinRoomVBindsFirst(s, roomId, userId) ==
    /\ sockets[s] = "open"
    /\ last' = Event("join-room", s, roomId, userId, None)
    /\ before' = rooms
    /\ Bind(s, userId)
    /\ IF ~RoomExists(roomId)
       THEN /\ emitted' = <<Emit("ack", s, "room-not-found")>>
            /\ UNCHANGED rooms
       ELSE LET i == RoomIndex(roomId)
                joined == AddMember(rooms[i], userId)
            IN  /\ rooms' = [rooms EXCEPT ![i] = joined]
                /\ emitted' =
                       <<Emit("room-clients", s, FilterOut(joined.members, userId)),
                         Emit("user-joined", roomId, userId)>>
                       \o broadcastRoomUpdate(joined)
                       \o <<Emit("ack", s, "ok")>>
    /\ UNCHANGED <<build, sockets, clock>>

\* socket.on('join-room', ({ roomId, user }, ack) => ...), user = {id: userId};
\* the caller passes the acknowledgement callback ack, the one reply channel
\* of this handler.
JoinRoomV(s, roomId, userId) ==
    /\ sockets[s] = "open"
    /\ last' = Event("join-room", s, roomId, userId, None)
    /\ before' = rooms
    /\ IF ~RoomExists(roomId)
       THEN /\ emitted' = <<Emit("ack", s, "room-not-found")>>
            /\ UNCHANGED <<rooms, userIdToSocket, socketIdToUserId, socketData>>
       ELSE LET i == RoomIndex(roomId)
                joined == AddMember(rooms[i], userId)
            IN  /\ Bind(s, userId)
                /\ rooms' = [rooms EXCEPT ![i] = joined]
                /\ emitted' =
                       <<Emit("room-clients", s, FilterOut(joined.members, userId)),
                         Emit("user-joined", roomId, userId)>>
                       \o broadcastRoomUpdate(joined)
                       \o <<Emit("ack", s, "ok")>>
    /\ UNCHANGED <<build, sockets, clock>>

\* LeaveRoomV that also drops the directory entry of the leaver.
LeaveRoomVUnbinds(s, roomId, userId) ==
    /\ sockets[s] = "open"
    /\ last' = Event("leave-room", None, roomId, userId, None)
    /\ before' = rooms
    /\ IF ~RoomExists(roomId)
       THEN /\ emitted' = <<>>
            /\ UNCHANGED <<rooms, userIdToSocket>>
       ELSE LET i == RoomIndex(roomId)
                left == RemoveMember(rooms[i], userId)
            IN  /\ rooms' = [rooms EXCEPT ![i] = left]
                /\ userIdToSocket' = [userIdToSocket EXCEPT ![userId] = None]
                /\ emitted' = broadcastRoomUpdate(left)
    /\ UNCHANGED <<build, sockets, socketIdToUserId, socketData, clock>>

\* socket.on('leave-room', ({ roomId, userId }) => ...)
LeaveRoomV(s, roomId, userId) ==
    /\ sockets[s] = "open"
    /\ last' = Event("leave-room", None, roomId, userId, None)
    /\ before' = rooms
    /\ IF ~RoomExists(roomId)
       THEN /\ emitted' = <<>>
            /\ UNCHANGED rooms
       ELSE LET i == RoomIndex(roomId)
                left == RemoveMember(rooms[i], userId)
            IN  /\ rooms' = [rooms EXCEPT ![i] = left]
                /\ emitted' = broadcastRoomUpdate(left)
    /\ UNCHANGED <<build, sockets, userIdToSocket, socketIdToUserId, socketData,
                   clock>>

\* socket.on('claim-mic', ({ roomId, slotIndex, user }) => ...)
ClaimMicV(s, roomId, slotIndex, userId) ==
    /\ sockets[s] = "open"
    /\ last' = Event("claim-mic", s, roomId, userId, slotIndex)
    /\ before' = rooms
    /\ IF ~RoomExists(roomId)
       THEN /\ emitted' = <<>>
            /\ UNCHANGED rooms
       ELSE LET i == RoomIndex(roomId)
                claimed == [rooms[i] EXCEPT !.micSlots[slotIndex] = userId]
            IN  IF SlotTaken(rooms[i], slotIndex)
                THEN /\ emitted' = <<Emit("claim-failed", s, slotIndex)>>
                     /\ UNCHANGED rooms
                ELSE /\ rooms' = [rooms EXCEPT ![i] = claimed]
                     /\ emitted' = broadcastRoomUpdate(claimed)
    /\ UNCHANGED <<build, sockets, userIdToSocket, socketIdToUserId, socketData,
                   clock>>

\* socket.on('release-mic', ({ roomId, userId }) => ...)
ReleaseMicV(s, roomId, userId) ==
    /\ sockets[s] = "open"
    /\ last' = Event("release-mic", None, roomId, userId, None)
    /\ before' = rooms
    /\ IF ~RoomExists(roomId)
       THEN /\ emitted' = <<>>
            /\ UNCHANGED rooms
       ELSE LET i == RoomIndex(roomId)
                changed == SlotsOf(rooms[i], userId) # {}
                released ==
                    [rooms[i] EXCEPT !.micSlots = ReleaseSlots(@, userId)]
            IN  /\ rooms' = [rooms EXCEPT ![i] = released]
                /\ emitted' = IF changed THEN broadcastRoomUpdate(released)
                                         ELSE <<>>
    /\ UNCHANGED <<build, sockets, userIdToSocket, socketIdToUserId, socketData,
                   clock>>

\* String.prototype.trim over a text given as its characters.
RECURSIVE TrimStart(_)
TrimStart(text) ==
    IF text # <<>> /\ Head(text) = " " THEN TrimStart(Tail(text)) ELSE text

RECURSIVE TrimEnd(_)
TrimEnd(text) ==
    IF text # <<>> /\ text[Len(text)] = " "
    THEN TrimEnd(SubSeq(text, 1, Len(text) - 1))
    ELSE text

Trim(text) == TrimEnd(TrimStart(text))

\* The chat entry of part_000.
ChatEntryV(fromId, text) == [fromId |-> fromId, text |-> Trim(text), at |-> clock]

\* room.chat.push(msg); if (room.chat.length > 500) room.chat = room.chat.slice(-500)
AppendChatV(chat, msg) ==
    LET pushed == Append(chat, msg)
    IN  IF Len(pushed) > ChatCap THEN SliceLast(pushed, ChatCap) ELSE pushed

\* socket.on('send-chat', ({ roomId, from, text }) => ...), from = {id: fromId}
SendChatV(s, roomId, fromId, text) ==
    /\ sockets[s] = "open"
    /\ last' = Event("send-chat", None, roomId, fromId, None)
    /\ before' = rooms
    /\ IF ~RoomExists(roomId)
       THEN /\ emitted' = <<>>
            /\ UNCHANGED <<rooms, clock>>
       ELSE LET i == RoomIndex(roomId)
                msg == ChatEntryV(fromId, text)
            IN  /\ rooms' = [rooms EXCEPT ![i].chat = AppendChatV(@, msg)]
                /\ emitted' = <<Emit("chat-message", roomId, msg)>>
                /\ clock' = clock + 1
    /\ UNCHANGED <<build, sockets, userIdToSocket, socketIdToUserId, socketData>>

\* forwardToUser looking the target up by the sockets that carry its id,
\* not by the directory entry of the id.
forwardToUserAnySession(targetUserId, event) ==
    LET carriers == {s \in SocketIds : socketIdToUserId[s] = targetUserId}
    IN  IF carriers # {}
        THEN <<Emit(event, CHOOSE s \in carriers : TRUE, targetUserId)>>
        ELSE <<>>

\* forwardToUser(targetUserId, event, data): what it emits.
forwardToUserV(targetUserId, event) ==
    LET targetSocketId ==
            IF targetUserId \in Users THEN userIdToSocket[targetUserId] ELSE None
    IN  IF targetSocketId # None
        THEN <<Emit(event, targetSocketId, targetUserId)>>
        ELSE <<>>

\* socket.on('webrtc-offer' | 'webrtc-answer' | 'webrtc-ice',
\*           d => forwardToUser(d.to, event, d))
RelayV(s, event, to) ==
    /\ sockets[s] = "open"
    /\ last' = Event(event, None, None, to, None)
    /\ before' = rooms
    /\ emitted' = forwardToUserV(to, event)
    /\ UNCHANGED <<build, sockets, rooms, userIdToSocket, socketIdToUserId,
                   socketData, clock>>

\* Evict without the release of the slots.
EvictMembersOnly(room, userId) ==
    LET changed == Includes(room.members, userId)
        members == FilterOut(room.members, userId)
    IN  [room EXCEPT !.members = members,
                     !.memberCount = IF changed THEN Len(members) ELSE @]

\* The body of rooms.forEach in the disconnect handler: the room afterwards.
Evict(room, userId) ==
    LET changed == Includes(room.members, userId) \/ SlotsOf(room, userId) # {}
        members == FilterOut(room.members, userId)
    IN  [room EXCEPT !.members = members,
                     !.micSlots = ReleaseSlots(room.micSlots, userId),
                     !.memberCount = IF changed THEN Len(members) ELSE @]

\* The broadcasts of rooms.forEach in the disconnect handler, in array order.
RECURSIVE EvictBroadcasts(_, _)
EvictBroadcasts(rs, userId) ==
    IF rs = <<>> THEN <<>>
    ELSE (IF Evict(Head(rs), userId) # Head(rs)
          THEN broadcastRoomUpdate(Head(rs)) ELSE <<>>)
         \o EvictBroadcasts(Tail(rs), userId)

\* const userId = socket.data.userId || socketIdToUserId.get(socket.id)
DisconnectUid(s) ==
    IF socketData[s] # None THEN socketData[s] ELSE socketIdToUserId[s]

\* socket.on('disconnect', reason => ...)
DisconnectV(s) ==
    /\ sockets[s] = "open"
    /\ sockets' = [sockets EXCEPT ![s] = "closed"]
    /\ before' = rooms
    /\ LET userId == DisconnectUid(s)
       IN  /\ last' = Event("disconnect", s, None, userId, None)
           /\ IF userId # None
              THEN /\ userIdToSocket' = [userIdToSocket EXCEPT ![userId] = None]
                   /\ socketIdToUserId' = [socketIdToUserId EXCEPT ![s] = None]
                   /\ rooms' = [i \in 1..Len(rooms) |-> Evict(rooms[i], userId)]
                   /\ emitted' = EvictBroadcasts(rooms, userId)
              ELSE /\ emitted' = <<>>
                   /\ UNCHANGED <<rooms, userIdToSocket, socketIdToUserId>>
    /\ UNCHANGED <<build, socketData, clock>>

---------------------------------------------------------------------------
(* src/server.js *)

\* io.to(roomId).emit('room-updated', room); io.emit('room-updated', room)
RoomUpdatedS(room) ==
    <<Emit("room-updated", room.id, room.id), Emit("room-updated", "*", room.id)>>

\* socket.on('create-room', (room) => ...), room = {id, memberCount, members}.
\* A payload without id is given as id None; without memberCount, as 0;
\* without members, as the empty array (what || makes of them).
CreateRoomS(s, id, memberCount, members) ==
    /\ sockets[s] = "open"
    /\ last' = Event("create-room", s, id, None, None)
    /\ before' = rooms
    /\ IF id = None
       THEN /\ emitted' = <<Emit("create-failed", s, "invalid_room")>>
            /\ UNCHANGED rooms
       ELSE IF RoomExists(id)
       THEN /\ emitted' = <<Emit("create-failed", s, "id-exists")>>
            /\ UNCHANGED rooms
       ELSE LET room == NewRoom(id, memberCount, members)
            IN  /\ rooms' = <<room>> \o rooms
                /\ emitted' = <<Emit("room-created", "*", id)>>
    /\ UNCHANGED <<build, sockets, userIdToSocket, socketIdToUserId, socketData,
                   clock>>

\* socket.on('join-room', (data) => ...), data = {roomId, user: {id: userId}}
JoinRoomS(s, roomId, userId) ==
    /\ sockets[s] = "open"
    /\ last' = Event("join-room", s, roomId, userId, None)
    /\ before' = rooms
    /\ IF ~RoomExists(roomId)
       THEN /\ emitted' = <<Emit("join-failed", s, "room-not-found")>>
            /\ UNCHANGED <<rooms, userIdToSocket, socketIdToUserId, socketData>>
       ELSE LET i == RoomIndex(roomId)
                currentClients == rooms[i].members
                joined == AddMember(rooms[i], userId)
            IN  /\ Bind(s, userId)
                /\ rooms' = [rooms EXCEPT ![i] = joined]
                /\ emitted' =
                       <<Emit("room-clients", s, currentClients),
                         Emit("user-joined", roomId, userId)>>
                       \o RoomUpdatedS(joined)
    /\ UNCHANGED <<build, sockets, clock>>

\* socket.on('leave-room', (data) => ...), data = {roomId, userId}
LeaveRoomS(s, roomId, userId) ==
    /\ sockets[s] = "open"
    /\ last' = Event("leave-room", None, roomId, userId, None)
    /\ before' = rooms
    /\ IF ~RoomExists(roomId)
       THEN /\ emitted' = <<>>
            /\ UNCHANGED rooms
       ELSE LET i == RoomIndex(roomId)
                left == RemoveMember(rooms[i], userId)
            IN  /\ rooms' = [rooms EXCEPT ![i] = left]
                /\ emitted' = RoomUpdatedS(left)
    /\ UNCHANGED <<build, sockets, userIdToSocket, socketIdToUserId, socketData,
                   clock>>

\* socket.on('claim-mic', (data) => ...), data = {roomId, slotIndex, user}
ClaimMicS(s, roomId, slotIndex, userId) ==
    /\ sockets[s] = "open"
    /\ last' = Event("claim-mic", s, roomId, userId, slotIndex)
    /\ before' = rooms
    /\ IF ~RoomExists(roomId)
       THEN /\ emitted' = <<>>
            /\ UNCHANGED rooms
       ELSE LET i == RoomIndex(roomId)
                claimed ==
                    AddMember([rooms[i] EXCEPT !.micSlots[slotIndex] = userId],
                              userId)
            IN  IF SlotTaken(rooms[i], slotIndex)
                THEN /\ emitted' = <<Emit("claim-failed", s, slotIndex)>>
                     /\ UNCHANGED rooms
                ELSE /\ rooms' = [rooms EXCEPT ![i] = claimed]
                     /\ emitted' = RoomUpdatedS(claimed)
    /\ UNCHANGED <<build, sockets, userIdToSocket, socketIdToUserId, socketData,
                   clock>>

\* socket.on('release-mic', (data) => ...), data = {roomId, slotIndex, userId}
ReleaseMicS(s, roomId, slotIndex, userId) ==
    /\ sockets[s] = "open"
    /\ last' = Event("release-mic", None, roomId, userId, slotIndex)
    /\ before' = rooms
    /\ IF ~RoomExists(roomId)
       THEN /\ emitted' = <<>>
            /\ UNCHANGED rooms
       ELSE LET i == RoomIndex(roomId)
                released ==
                    IF rooms[i].micSlots[slotIndex] = userId
                    THEN [rooms[i] EXCEPT !.micSlots[slotIndex] = None]
                    ELSE rooms[i]
            IN  /\ rooms' = [rooms EXCEPT ![i] = released]
                /\ emitted' = RoomUpdatedS(released)
    /\ UNCHANGED <<build, sockets, userIdToSocket, socketIdToUserId, socketData,
                   clock>>

\* The chat entry of server.js: the text as sent.
ChatEntryS(roomId, fromId, text) ==
    [roomId |-> roomId, fromId |-> fromId, text |-> text, at |-> clock]

\* socket.on('send-chat', (data) => ...), data = {roomId, from, text}
SendChatS(s, roomId, fromId, text) ==
    /\ sockets[s] = "open"
    /\ last' = Event("send-chat", None, roomId, fromId, None)
    /\ before' = rooms
    /\ IF ~RoomExists(roomId)
       THEN /\ emitted' = <<>>
            /\ UNCHANGED <<rooms, clock>>
       ELSE LET i == RoomIndex(roomId)
                msg == ChatEntryS(roomId, fromId, text)
            IN  /\ rooms' = [rooms EXCEPT ![i].chat = Append(@, msg)]
                /\ emitted' = <<Emit("chat-message", roomId, msg)>>
                /\ clock' = clock + 1
    /\ UNCHANGED <<build, sockets, userIdToSocket, socketIdToUserId, socketData>>

\* function forwardToUser(targetUserId, eventName, payload): what it emits.
forwardToUserS(targetUserId, eventName) ==
    LET targetSocketId ==
            IF targetUserId \in Users THEN userIdToSocket[targetUserId] ELSE None
    IN  IF targetSocketId = None
        THEN <<>>
        ELSE <<Emit(eventName, targetSocketId, targetUserId)>>

\* socket.on('webrtc-offer' | 'webrtc-answer' | 'webrtc-ice', (data) => ...),
\* data = {to, from, ...}; a missing to is given as NoId.
RelayS(s, event, to) ==
    /\ sockets[s] = "open"
    /\ last' = Event(event, None, None, to, None)
    /\ before' = rooms
    /\ emitted' = IF to = NoId THEN <<>> ELSE forwardToUserS(to, event)
    /\ UNCHANGED <<build, sockets, rooms, userIdToSocket, socketIdToUserId,
                   socketData, clock>>

\* socket.on('disconnect', (reason) => ...)
DisconnectS(s) ==
    /\ sockets[s] = "open"
    /\ sockets' = [sockets EXCEPT ![s] = "closed"]
    /\ before' = rooms
    /\ LET uid == DisconnectUid(s)
       IN  /\ last' = Event("disconnect", s, None, uid, None)
           /\ IF uid # None
              THEN /\ userIdToSocket' = [userIdToSocket EXCEPT ![uid] = None]
                   /\ socketIdToUserId' = [socketIdToUserId EXCEPT ![s] = None]
                   /\ rooms' = [i \in 1..Len(rooms) |-> Evict(rooms[i], uid)]
                   /\ emitted' = EvictBroadcasts(rooms, uid)
              ELSE /\ emitted' = <<>>
                   /\ UNCHANGED <<rooms, userIdToSocket, socketIdToUserId>>
    /\ UNCHANGED <<build, socketData, clock>>

---------------------------------------------------------------------------
(* The specification of the presence operations, with users that carry an  *)
(* id.  The chat log is written by send-chat alone and read by no other    *)
(* handler modelled here, so it is explored under SpecChat; the histories  *)
(* sent and run stay as they are.                                          *)

RelayEvents == {"webrtc-offer", "webrtc-answer", "webrtc-ice"}

\* The histories are left alone.
Quiet == UNCHANGED <<sent, run, joinedAs>>

Next ==
    \/ \E s \in SocketIds : Connect(s) /\ Quiet
    \/ \E s \in SocketIds, r \in RoomIds, u \in Users :
          build = "part_000" /\ JoinRoomV(s, r, u) /\ Quiet
    \/ \E s \in SocketIds, r \in RoomIds, u \in Users :
          build = "part_000" /\ LeaveRoomV(s, r, u) /\ Quiet
    \/ \E s \in SocketIds, r \in RoomIds, k \in Slots, u \in Users :
          build = "part_000" /\ ClaimMicV(s, r, k, u) /\ Quiet
    \/ \E s \in SocketIds, r \in RoomIds, u \in Users :
          build = "part_000" /\ ReleaseMicV(s, r, u) /\ Quiet
    \/ \E s \in SocketIds, e \in RelayEvents, u \in Users :
          build = "part_000" /\ RelayV(s, e, u) /\ Quiet
    \/ \E s \in SocketIds :
          build = "part_000" /\ DisconnectV(s) /\ Quiet
    \/ \E s \in SocketIds, r \in CreateIds, n \in SeedCounts,
          m \in SeedMembers :
          build = "server.js" /\ CreateRoomS(s, r, n, m) /\ Quiet
    \/ \E s \in SocketIds, r \in RoomIds, u \in Users :
          build = "server.js" /\ JoinRoomS(s, r, u) /\ Quiet
    \/ \E s \in SocketIds, r \in RoomIds, u \in Users :
          build = "server.js" /\ LeaveRoomS(s, r, u) /\ Quiet
    \/ \E s \in SocketIds, r \in RoomIds, k \in Slots, u \in Users :
          build = "server.js" /\ ClaimMicS(s, r, k, u) /\ Quiet
    \/ \E s \in SocketIds, r \in RoomIds, k \in Slots, u \in Users :
          build = "server.js" /\ ReleaseMicS(s, r, k, u) /\ Quiet
    \/ \E s \in SocketIds, e \in RelayEvents, u \in Users :
          build = "server.js" /\ RelayS(s, e, u) /\ Quiet
    \/ \E s \in SocketIds :
          build = "server.js" /\ DisconnectS(s) /\ Quiet

Spec == Init /\ [][Next]_vars

---------------------------------------------------------------------------
(* Two rooms.  Spec keeps server.js to one room (CreateIds); here its      *)
(* create-room makes both rooms of RoomIds, and the inputs are cut to the  *)
(* events that bind, fill and unwind rooms: join-room, claim-mic on one    *)
(* slot, one relay event, disconnect.  part_000 never has a second room.   *)

RoomsSlots == {"0"}
RoomsRelayEvents == {"webrtc-offer"}

NextRooms ==
    \/ \E s \in SocketIds : Connect(s) /\ Quiet
    \/ \E s \in SocketIds, r \in RoomIds, u \in Users :
          build = "part_000" /\ JoinRoomV(s, r, u) /\ Quiet
    \/ \E s \in SocketIds, r \in RoomIds, k \in RoomsSlots, u \in Users :
          build = "part_000" /\ ClaimMicV(s, r, k, u) /\ Quiet
    \/ \E s \in SocketIds, e \in RoomsRelayEvents, u \in Users :
          build = "part_000" /\ RelayV(s, e, u) /\ Quiet
    \/ \E s \in SocketIds :
          build = "part_000" /\ DisconnectV(s) /\ Quiet
    \/ \E s \in SocketIds, r \in RoomIds :
          build = "server.js" /\ CreateRoomS(s, r, 0, <<>>) /\ Quiet
    \/ \E s \in SocketIds, r \in RoomIds, u \in Users :
          build = "server.js" /\ JoinRoomS(s, r, u) /\ Quiet
    \/ \E s \in SocketIds, r \in RoomIds, k \in RoomsSlots, u \in Users :
          build = "server.js" /\ ClaimMicS(s, r, k, u) /\ Quiet
    \/ \E s \in SocketIds, e \in RoomsRelayEvents, u \in Users :
          build = "server.js" /\ RelayS(s, e, u) /\ Quiet
    \/ \E s \in SocketIds :
          build = "server.js" /\ DisconnectS(s) /\ Quiet

SpecRooms == Init /\ [][NextRooms]_vars

---------------------------------------------------------------------------
(* The chat log on its own: one socket sends to one room, far enough to    *)
(* pass the retention cap.  sent records every entry handed to the room.   *)

\* send-chat events explored under SpecChat.
MaxSends == 502

ChatSocket == "s1"
ChatRoom == "hall"
ChatSender == "u1"
ChatText == <<" ", "h", "i", " ">>

\* The entry the handler has just delivered joins the history of its room.
TrackSent ==
    /\ sent' = IF emitted' # <<>> /\ emitted'[1].ev = "chat-message"
               THEN [sent EXCEPT ![last'.roomId] = Append(@, emitted'[1].data)]
               ELSE sent
    /\ UNCHANGED <<run, joinedAs>>

NextChat ==
    \/ Connect(ChatSocket) /\ TrackSent
    \/ /\ build = "server.js"
       /\ CreateRoomS(ChatSocket, ChatRoom, 0, <<>>)
       /\ TrackSent
    \/ /\ build = "part_000"
       /\ clock < MaxSends
       /\ SendChatV(ChatSocket, ChatRoom, ChatSender, ChatText)
       /\ TrackSent
    \/ /\ build = "server.js"
       /\ clock < MaxSends
       /\ SendChatS(ChatSocket, ChatRoom, ChatSender, ChatText)
       /\ TrackSent

SpecChat == Init /\ [][NextChat]_vars

---------------------------------------------------------------------------
(* Short chat logs of texts that differ in what trimming leaves of them.   *)

\* send-chat events explored under SpecTexts.
MaxTexts == 4

ChatTexts == {ChatText, <<" ">>, <<>>}

NextTexts ==
    \/ Connect(ChatSocket) /\ TrackSent
    \/ /\ build = "server.js"
       /\ CreateRoomS(ChatSocket, ChatRoom, 0, <<>>)
       /\ TrackSent
    \/ \E text \in ChatTexts :
          /\ build = "part_000"
          /\ clock < MaxTexts
          /\ SendChatV(ChatSocket, ChatRoom, ChatSender, text)
          /\ TrackSent
    \/ \E text \in ChatTexts :
          /\ build = "server.js"
          /\ clock < MaxTexts
          /\ SendChatS(ChatSocket, ChatRoom, ChatSender, text)
          /\ TrackSent

SpecTexts == Init /\ [][NextTexts]_vars

---------------------------------------------------------------------------
(* Joins and leaves on their own, with the history run: the members list   *)
(* of the room as it was before the current run of consecutive join-room   *)
(* and leave-room events on one (room, user) began.                        *)

NoRun == [roomId |-> None, userId |-> None, members |-> <<>>]

TrackRun ==
    /\ run' = IF last'.op \in {"join-room", "leave-room"}
                 /\ ExistsIn(rooms, last'.roomId)
              THEN IF run.roomId = last'.roomId /\ run.userId = last'.userId
                   THEN run
                   ELSE [roomId |-> last'.roomId, userId |-> last'.userId,
                         members |-> findRoom(last'.roomId).members]
              ELSE NoRun
    /\ UNCHANGED <<sent, joinedAs>>

NextRun ==
    \/ \E s \in SocketIds : Connect(s) /\ TrackRun
    \/ \E s \in SocketIds, r \in RoomIds, u \in Users :
          build = "part_000" /\ JoinRoomV(s, r, u) /\ TrackRun
    \/ \E s \in SocketIds, r \in RoomIds, u \in Users :
          build = "part_000" /\ LeaveRoomV(s, r, u) /\ TrackRun
    \/ \E s \in SocketIds, r \in CreateIds, n \in SeedCounts,
          m \in SeedMembers :
          build = "server.js" /\ CreateRoomS(s, r, n, m) /\ TrackRun
    \/ \E s \in SocketIds, r \in RoomIds, u \in Users :
          build = "server.js" /\ JoinRoomS(s, r, u) /\ TrackRun
    \/ \E s \in SocketIds, r \in RoomIds, u \in Users :
          build = "server.js" /\ LeaveRoomS(s, r, u) /\ TrackRun

SpecRun == Init /\ [][NextRun]_vars

---------------------------------------------------------------------------
(* The directory on its own: joins, relays and disconnects on the default  *)
(* room, with join-room payloads whose user has no id and relays without   *)
(* a target.  joinedAs records which socket joined last under each id.     *)

DirectoryRoom == "hall"
MaybeUsers == Users \cup {NoId}

\* A join-room that found its room and carried an id is the latest join
\* under that id.
TrackJoin ==
    /\ joinedAs' = IF /\ last'.op = "join-room"
                      /\ last'.userId \in Users
                      /\ ExistsIn(rooms, last'.roomId)
                   THEN [joinedAs EXCEPT ![last'.userId] = last'.socket]
                   ELSE joinedAs
    /\ UNCHANGED <<sent, run>>

NextDirectory ==
    \/ \E s \in SocketIds : Connect(s) /\ TrackJoin
    \/ \E s \in SocketIds, r \in RoomIds, u \in MaybeUsers :
          build = "part_000" /\ JoinRoomV(s, r, u) /\ TrackJoin
    \/ \E s \in SocketIds, e \in RelayEvents, u \in MaybeUsers :
          build = "part_000" /\ RelayV(s, e, u) /\ TrackJoin
    \/ \E s \in SocketIds :
          build = "part_000" /\ DisconnectV(s) /\ TrackJoin
    \/ \E s \in SocketIds :
          build = "server.js" /\ CreateRoomS(s, DirectoryRoom, 0, <<>>)
                              /\ TrackJoin
    \/ \E s \in SocketIds, r \in RoomIds, u \in MaybeUsers :
          build = "server.js" /\ JoinRoomS(s, r, u) /\ TrackJoin
    \/ \E s \in SocketIds, e \in RelayEvents, u \in MaybeUsers :
          build = "server.js" /\ RelayS(s, e, u) /\ TrackJoin
    \/ \E s \in SocketIds :
          build = "server.js" /\ DisconnectS(s) /\ TrackJoin

SpecDirectory == Init /\ [][NextDirectory]_vars

---------------------------------------------------------------------------
(* Properties. *)

\* The room with this id as the last handler found it, and as it is now.
RoomBefore(id) == before[IndexIn(before, id)]
ExistedBefore(id) == ExistsIn(before, id)

\* The identities a room refers to: its members and its slot occupants.
Occupants(room) == {room.micSlots[k] : k \in Slots} \ {None}
MemberSet(room) == {room.members[i] : i \in DOMAIN room.members}

\* The socket has just been disconnected by this step.
Disconnected(s) == sockets[s] = "open" /\ sockets'[s] = "closed"

\* The last handler was a claim-mic for a slot that another identity held.
ClaimOnHeldSlot ==
    /\ last.op = "claim-mic"
    /\ ExistedBefore(last.roomId)
    /\ RoomBefore(last.roomId).micSlots[last.slotIndex] \in Users \ {last.userId}

\* C1: a claim-mic for a slot held by another identity is rejected, with
\* claim-failed emitted to the claimer alone, and the slot keeps its holder;
\* in every state a slot is empty or holds one identity.
C1_SlotExclusive ==
    /\ \A i \in DOMAIN rooms, k \in Slots :
          rooms[i].micSlots[k] \in Users \cup {None}
    /\ ClaimOnHeldSlot =>
          /\ emitted = <<Emit("claim-failed", last.socket, last.slotIndex)>>
          /\ findRoom(last.roomId).micSlots[last.slotIndex]
                = RoomBefore(last.roomId).micSlots[last.slotIndex]
          /\ rooms = before

C1_Witness ==
    /\ ClaimOnHeldSlot
    /\ \E e \in {emitted[i] : i \in DOMAIN emitted} : e.ev = "claim-failed"

\* C2: when disconnect(S) runs with S bound to identity U, U is afterwards in
\* no room's members list and in no mic slot, and a relay addressed to U that
\* follows delivers nothing.
C2_DisconnectUnwinds ==
    [][/\ \A s \in SocketIds :
             (Disconnected(s) /\ socketIdToUserId[s] \in Users) =>
                 \A i \in DOMAIN rooms' :
                     /\ ~Includes(rooms'[i].members, socketIdToUserId[s])
                     /\ \A k \in Slots :
                           rooms'[i].micSlots[k] # socketIdToUserId[s]
       /\ (/\ last.op = "disconnect"
           /\ last.userId \in Users
           /\ last'.op \in RelayEvents
           /\ last'.userId = last.userId) => emitted' = <<>>
      ]_vars

\* A disconnect has just evicted an identity that was a member of two rooms
\* and held a slot in both.
C2_Witness ==
    /\ last.op = "disconnect"
    /\ last.userId \in Users
    /\ Len(before) = 2
    /\ \A i \in DOMAIN before :
          /\ Includes(before[i].members, last.userId)
          /\ SlotsOf(before[i], last.userId) # {}

\* C3: when identity U has joined on S1 and then on S2, the disconnect of S1
\* while S2 is connected leaves U in every members list and in every slot
\* it was in.
C3_StaleDisconnectKeeps ==
    [][\A s1 \in SocketIds, s2 \in SocketIds, u \in Users :
          (/\ s1 # s2
           /\ Disconnected(s1)
           /\ sockets[s2] = "open"
           /\ socketIdToUserId[s1] = u
           /\ socketIdToUserId[s2] = u
           /\ userIdToSocket[u] = s2) =>
              \A i \in DOMAIN rooms :
                  /\ Includes(rooms[i].members, u)
                        => Includes(rooms'[i].members, u)
                  /\ \A k \in Slots :
                        rooms[i].micSlots[k] = u => rooms'[i].micSlots[k] = u
      ]_vars

\* C4: the binding is 1:1: userIdToSocket maps no two identities to one
\* session, and socketIdToUserId maps no two connected sessions to one
\* identity.
C4_BindingOneToOne ==
    /\ \A u1 \in Users, u2 \in Users :
          (u1 # u2 /\ userIdToSocket[u1] # None)
              => userIdToSocket[u1] # userIdToSocket[u2]
    /\ \A s1 \in SocketIds, s2 \in SocketIds :
          (/\ s1 # s2
           /\ sockets[s1] = "open"
           /\ sockets[s2] = "open"
           /\ socketIdToUserId[s1] # None)
              => socketIdToUserId[s1] # socketIdToUserId[s2]

\* C5: every identity a room refers to, as member or as slot occupant, has a
\* userIdToSocket entry that points to a connected session.
C5_ReferencedIsReachable ==
    \A i \in DOMAIN rooms :
        \A u \in MemberSet(rooms[i]) \cup Occupants(rooms[i]) :
            /\ u \in Users
            /\ userIdToSocket[u] # None
            /\ sockets[userIdToSocket[u]] = "open"

\* C6: after leave-room(R, U) is processed, U is not in R's members list and
\* no slot of R holds U.
C6_LeaveCascades ==
    (last.op = "leave-room" /\ ExistedBefore(last.roomId)) =>
        /\ ~Includes(findRoom(last.roomId).members, last.userId)
        /\ SlotsOf(findRoom(last.roomId), last.userId) = {}

\* A leave-room by a member that held every slot of the room.
C6_Witness ==
    /\ last.op = "leave-room"
    /\ ExistedBefore(last.roomId)
    /\ Includes(RoomBefore(last.roomId).members, last.userId)
    /\ SlotsOf(RoomBefore(last.roomId), last.userId) = Slots
    /\ SlotsOf(findRoom(last.roomId), last.userId) = {}

\* C7: in every room, memberCount is the number of entries of members.
C7_MemberCountIsLength ==
    \A i \in DOMAIN rooms : rooms[i].memberCount = Len(rooms[i].members)

\* C8: the occupant of every occupied slot is in the room's members list.
C8_OccupantIsMember ==
    \A i \in DOMAIN rooms :
        \A u \in Occupants(rooms[i]) : Includes(rooms[i].members, u)

\* C9: the stored chat log of every room has at most ChatCap entries, and is
\* the last ChatCap entries sent to the room, in the order they were sent.
C9_ChatRetention ==
    \A i \in DOMAIN rooms :
        /\ Len(rooms[i].chat) <= ChatCap
        /\ rooms[i].chat = SliceLast(sent[rooms[i].id], ChatCap)

\* The last handler was a join-room or leave-room of the current run.
InRun ==
    /\ last.op \in {"join-room", "leave-room"}
    /\ RoomExists(last.roomId)
    /\ run.roomId = last.roomId
    /\ run.userId = last.userId

\* The members list had the last event alone been applied to the list the
\* run started from.
LastEventAlone ==
    IF last.op = "join-room"
    THEN PushIfMissing(run.members, last.userId)
    ELSE FilterOut(run.members, last.userId)

Delivered(e) == e.to \in SocketIds /\ sockets[e.to] = "open"
Deliveries == {i \in DOMAIN emitted : Delivered(emitted[i])}

\* The session a relay to userId may reach: connected, and the latest to
\* have joined under userId.
RelayTargets(userId) ==
    IF userId \in Users
    THEN {s \in SocketIds : sockets[s] = "open" /\ joinedAs[userId] = s}
    ELSE {}

\* C11: a relay addressed to T is delivered to at most one session, and only
\* to a connected session that is the latest to have joined as T; when there
\* is no such session nothing is delivered; no error is emitted, and rooms,
\* directory and sessions are what they were.
C11_RelayTargeting ==
    [][last'.op \in RelayEvents =>
          /\ Len(emitted') <= 1
          /\ \A i \in DOMAIN emitted' :
                /\ emitted'[i].ev = last'.op
                /\ emitted'[i].to \in SocketIds
                /\ sockets'[emitted'[i].to] = "open" =>
                      /\ last'.userId \in Users
                      /\ joinedAs'[last'.userId] = emitted'[i].to
          /\ UNCHANGED <<rooms, userIdToSocket, socketIdToUserId, socketData,
                         sockets>>
      ]_vars

\* A relay has just been delivered to the latest joiner under an id while
\* the other session, which joined under the same id before, is connected.
C11_Witness ==
    /\ last.op \in RelayEvents
    /\ Deliveries = {1}
    /\ emitted[1].to \in RelayTargets(last.userId)
    /\ \E s \in SocketIds \ {emitted[1].to} :
          sockets[s] = "open" /\ socketIdToUserId[s] = last.userId

\* The identity is bound to session s and to no other connected session.
OnlyBinding(u, s) ==
    /\ userIdToSocket[u] = s
    /\ \A s2 \in SocketIds \ {s} :
          ~(sockets[s2] = "open" /\ socketIdToUserId[s2] = u)

\* C12: after disconnect(S), neither userIdToSocket nor socketIdToUserId has
\* an entry that refers to S, and no room lists (as member or as slot
\* occupant) an identity whose only binding was S, under however many
\* identities S has joined.
C12_DisconnectUnwindsAll ==
    [][\A s \in SocketIds :
          Disconnected(s) =>
              /\ \A u \in Users : userIdToSocket'[u] # s
              /\ socketIdToUserId'[s] = None
              /\ \A u \in Users :
                    OnlyBinding(u, s) =>
                        \A i \in DOMAIN rooms' :
                            u \notin MemberSet(rooms'[i])
                                        \cup Occupants(rooms'[i])
      ]_vars

C14_JoinWithoutIdMutatesNothing ==
    [][(/\ last'.op = "join-room"
        /\ last'.userId = NoId
        /\ RoomExists(last'.roomId)) =>
          /\ findRoom(last'.roomId).members
                = rooms'[RoomIndex(last'.roomId)].members
          /\ findRoom(last'.roomId).memberCount
                = rooms'[RoomIndex(last'.roomId)].memberCount
          /\ UNCHANGED <<userIdToSocket, socketIdToUserId>>
      ]_vars

\* Identity u was bound to session s1 and has since joined on session s2,
\* which is connected and is what the directory resolves u to.
Rebound(u, s1, s2) ==
    /\ s1 # s2
    /\ socketIdToUserId[s1] = u
    /\ socketIdToUserId[s2] = u
    /\ joinedAs[u] = s2
    /\ sockets[s2] = "open"

\* C15: when U was bound to S1 and has rebound to S2 by joining on S2, the
\* disconnect of S1 leaves userIdToSocket[U] = S2, and a relay addressed to
\* U that follows is delivered to S2.
C15_UnbindKeepsNewerBinding ==
    [][\A s1 \in SocketIds, s2 \in SocketIds, u \in Users :
          /\ (/\ Rebound(u, s1, s2)
              /\ userIdToSocket[u] = s2
              /\ Disconnected(s1)) => userIdToSocket'[u] = s2
          /\ (/\ last.op = "disconnect"
              /\ last.socket = s1
              /\ last.userId = u
              /\ s1 # s2
              /\ socketIdToUserId[s2] = u
              /\ joinedAs[u] = s2
              /\ sockets[s2] = "open"
              /\ last'.op \in RelayEvents
              /\ last'.userId = u) => emitted' = <<Emit(last'.op, s2, u)>>
      ]_vars

\* The last handler was a claim-mic by the identity that held the slot.
ReclaimByHolder ==
    /\ last.op = "claim-mic"
    /\ ExistedBefore(last.roomId)
    /\ RoomBefore(last.roomId).micSlots[last.slotIndex] = last.userId

\* C16: a claim-mic for a slot by the identity that already holds it
\* succeeds: no claim-failed is emitted, the slot is still held by that
\* identity, and the other slots and the members of the room are unchanged.
C16_ReclaimByHolderSucceeds ==
    ReclaimByHolder =>
        /\ \A i \in DOMAIN emitted : emitted[i].ev # "claim-failed"
        /\ findRoom(last.roomId).micSlots = RoomBefore(last.roomId).micSlots
        /\ findRoom(last.roomId).members = RoomBefore(last.roomId).members

\* C17: release-mic for (R, U) empties every slot of R that U holds and no
\* slot held by another identity; when U holds no slot of R, no state
\* changes and no room-updated is broadcast.
C17_ReleaseFreesAllOfHolder ==
    (last.op = "release-mic" /\ ExistedBefore(last.roomId)) =>
        /\ findRoom(last.roomId).micSlots
              = ReleaseSlots(RoomBefore(last.roomId).micSlots, last.userId)
        /\ SlotsOf(RoomBefore(last.roomId), last.userId) = {} =>
              /\ rooms = before
              /\ \A i \in DOMAIN emitted : emitted[i].ev # "room-updated"

\* The step is a send-chat to an existing room whose text is empty once
\* trimmed.
BlankSend ==
    \E text \in ChatTexts :
        /\ Trim(text) = <<>>
        /\ RoomExists(ChatRoom)
        /\ \/ build = "part_000"
              /\ SendChatV(ChatSocket, ChatRoom, ChatSender, text)
           \/ build = "server.js"
              /\ SendChatS(ChatSocket, ChatRoom, ChatSender, text)

\* C18: a send-chat whose text is empty after trimming is a no-op: the
\* stored chat log of the room is what it was and no chat-message is
\* emitted.
C18_BlankChatIsNoOp ==
    [][BlankSend =>
          /\ rooms'[RoomIndex(ChatRoom)].chat = findRoom(ChatRoom).chat
          /\ \A i \in DOMAIN emitted' : emitted'[i].ev # "chat-message"
      ]_vars

\* C19: a leave-room for (R, U) emits room-updated only when it changed R:
\* when U was neither a member of R nor the holder of a slot of R, no
\* room-updated is emitted.
C19_LeaveBroadcastsOnChange ==
    (/\ last.op = "leave-room"
     /\ ExistedBefore(last.roomId)
     /\ ~Includes(RoomBefore(last.roomId).members, last.userId)
     /\ SlotsOf(RoomBefore(last.roomId), last.userId) = {}) =>
        \A i \in DOMAIN emitted : emitted[i].ev # "room-updated"

\* C20: the room-clients message a join-room sends to the joiner lists the
\* members of the room other than the joiner, in their order, whether or
\* not the joiner was a member already.
C20_RoomClientsExcludesJoiner ==
    (last.op = "join-room" /\ ExistedBefore(last.roomId)) =>
        \E i \in DOMAIN emitted :
            emitted[i] = Emit("room-clients", last.socket,
                              FilterOut(findRoom(last.roomId).members,
                                        last.userId))

\* The identity is in no room, as member or as slot occupant.
InNoRoom(u) ==
    \A i \in DOMAIN rooms : u \notin MemberSet(rooms[i]) \cup Occupants(rooms[i])

\* C21: a leave-room leaves userIdToSocket and socketIdToUserId as they
\* were; an identity that has left every room is still resolved to its
\* session, a relay addressed to it that follows is emitted to that session,
\* and its directory entry goes only when a session bound to it disconnects.
C21_LeaveKeepsDirectory ==
    [][/\ last'.op = "leave-room" =>
             UNCHANGED <<userIdToSocket, socketIdToUserId, socketData>>
       /\ \A u \in Users :
             (/\ last.op = "leave-room"
              /\ last.userId = u
              /\ InNoRoom(u)
              /\ userIdToSocket[u] # None
              /\ last'.op \in RelayEvents
              /\ last'.userId = u) =>
                 emitted' = <<Emit(last'.op, userIdToSocket[u], u)>>
       /\ \A u \in Users :
             (userIdToSocket[u] # None /\ userIdToSocket'[u] = None) =>
                 \E s \in SocketIds :
                     Disconnected(s) /\ DisconnectUid(s) = u
      ]_vars

\* An identity bound to a connected session has just left the one room it
\* was in, where it was a member and held a slot.
C21_Witness ==
    /\ last.op = "leave-room"
    /\ last.userId \in Users
    /\ ExistedBefore(last.roomId)
    /\ Includes(RoomBefore(last.roomId).members, last.userId)
    /\ SlotsOf(RoomBefore(last.roomId), last.userId) # {}
    /\ InNoRoom(last.userId)
    /\ userIdToSocket[last.userId] # None
    /\ sockets[userIdToSocket[last.userId]] = "open"
    /\ socketIdToUserId[userIdToSocket[last.userId]] = last.userId

===========================================================================
